---- MODULE Spec2Model ----
(***************************************************************************)
(* The HTTP gateway of src/main.rs: four business handlers (new_order,     *)
(* modify_order, cancel_order, depth) that translate a JSON body into one  *)
(* RPC against the order book, map the reply and record metrics, and the   *)
(* metric handler that renders the registry.                               *)
(*                                                                         *)
(* Every inbound request runs on its own task.  A handler is cut where the *)
(* code can be interleaved with other tasks: at the awaited RPC, and at    *)
(* each update of the process-wide metrics.                                *)
(***************************************************************************)
EXTENDS Integers, Sequences, FiniteSets, Bags, TLC

\* ------------------------------------------------------------ bounds
\* largest value of an unsigned field
MaxVal == 1
\* handler tasks that may run at the same time
NumTasks == 2
\* requests accepted in one behaviour
MaxRequests == 2

Tasks == 1..NumTasks
U32 == 0..MaxVal

\* ------------------------------------------------------------ Option<T>
None == <<>>
Some(n) == <<n>>
\* Option::unwrap; the callers test for None first, where the code panics
unwrap(o) == o[1]

OptU32 == {None} \cup {Some(n) : n \in U32}
SecurityNames == {"AAPL", "MSFT"}
OrderIds == {"X", "Y"}
OptString == {None, Some("rejected")}
\* status values the backend answers with: accepted, rejected
Statuses == {200, 400}

\* ------------------------------------------------------------ inbound DTOs
\* serde reads a missing Option field as None and a literal 0 as Some(0)
NewOrder == [price : OptU32, quantity : U32, is_buy_side : BOOLEAN,
             security_name : SecurityNames]
ModifyOrder == [order_id : OrderIds, new_price : OptU32, new_quantity : OptU32,
                is_buy_side : BOOLEAN]
CancelOrder == [order_id : OrderIds]
DepthReq == [security_name : SecurityNames, level_count : OptU32]

\* ------------------------------------------------------------ RPC replies
NewOrderResponse == [order_id : OrderIds, status : Statuses,
                     order_index : OptU32, cause : OptString]
ModifyOrderResponse == [order_id : OrderIds, status : Statuses, output : OptString]
CancelOrderResponse == [order_id : OrderIds, status : Statuses, cause : OptString]
\* a book with no level, and a book with one level on each side
Books == {[ask_depth |-> <<>>, bid_depth |-> <<>>],
          [ask_depth |-> <<[price |-> 1, quantity |-> 1]>>,
           bid_depth |-> <<[price |-> 0, quantity |-> 1]>>]}
BookResponse == [book_depth : {None} \cup {Some(b) : b \in Books}]

\* ------------------------------------------------------------ translators
NewOrderRequest_LimitForSell(req) ==
    [user_id |-> None, price |-> req.price, quantity |-> req.quantity,
     is_buy_side |-> req.is_buy_side, security_name |-> req.security_name,
     order_type |-> IF req.is_buy_side THEN "Market" ELSE "Limit"]

NewOrderRequest(req) ==
    [user_id |-> None, price |-> req.price, quantity |-> req.quantity,
     is_buy_side |-> req.is_buy_side, security_name |-> req.security_name,
     order_type |-> "Market"]

\* if x.unwrap() == 0 {None} else {x}
normalize(o) == IF unwrap(o) = 0 THEN None ELSE o

ModifyOrderRequest(req) ==
    [order_id |-> req.order_id, new_price |-> normalize(req.new_price),
     new_quantity |-> normalize(req.new_quantity), side |-> req.is_buy_side]

CancelOrderRequest(req) == [order_id |-> req.order_id]

BookRequest(req) ==
    [security_name |-> req.security_name, level_count |-> normalize(req.level_count)]

\* ------------------------------------------------------------ response mappers
NewOrderRes(value) ==
    [order_id |-> value.order_id, status |-> value.status,
     order_index |-> value.order_index, cause |-> value.cause]

ModifyOrderRes(value) ==
    [order_id |-> value.order_id, status |-> value.status, output |-> value.output]

CancelOrderRes_DropCause(value) ==
    [order_id |-> value.order_id, status |-> value.status, output |-> None]

CancelOrderRes(value) ==
    [order_id |-> value.order_id, status |-> value.status, output |-> value.cause]

DepthRes_AlwaysOk(book_depth) == [status |-> 200, output |-> "book recieved"]

\* the two arms of match book_depth
DepthRes(book_depth) ==
    IF book_depth # None
    THEN [status |-> 200, output |-> "book recieved"]
    ELSE [status |-> 400, output |-> "orderbook is empty"]

\* ------------------------------------------------------------ metrics
Families == {"new_order_total_duration_ms", "modify_order_total_duration_ms",
             "cancel_order_total_duration_ms", "depth_total_duration_ms"}

Family(r) ==
    CASE r = "new" -> "new_order_total_duration_ms"
      [] r = "modify" -> "modify_order_total_duration_ms"
      [] r = "cancel" -> "cancel_order_total_duration_ms"
      [] r = "depth" -> "depth_total_duration_ms"

\* ------------------------------------------------------------ state
VARIABLES
    pc,              \* where each task is: idle, called, resolved, observed, counted, done, panicked
    route,           \* the handler the task runs
    req,             \* the inbound DTO, until it is moved into the RPC
    rpcReq,          \* the request in flight to the backend
    rpcResp,         \* the reply the backend gave
    res,             \* the response DTO
    security_name,   \* depth's clone of req.security_name
    labels,          \* the label values of the task's observation
    events,          \* what the task has done so far, in order
    REQUEST_COUNTER, \* IntCounter
    histograms,      \* per family, the bag of label values observed
    registry,        \* the families registered in SharedState.registry
    metricOut,       \* the last body metric returned
    started,         \* requests accepted so far
    completed        \* requests whose handler returned its response

vars == <<pc, route, req, rpcReq, rpcResp, res, security_name, labels, events,
          REQUEST_COUNTER, histograms, registry, metricOut, started, completed>>

Nothing == [none |-> TRUE]

metrics == <<REQUEST_COUNTER, histograms, registry, metricOut>>

Init ==
    /\ pc = [t \in Tasks |-> "idle"]
    /\ route = [t \in Tasks |-> "none"]
    /\ req = [t \in Tasks |-> Nothing]
    /\ rpcReq = [t \in Tasks |-> Nothing]
    /\ rpcResp = [t \in Tasks |-> Nothing]
    /\ res = [t \in Tasks |-> Nothing]
    /\ security_name = [t \in Tasks |-> ""]
    /\ labels = [t \in Tasks |-> <<>>]
    /\ events = [t \in Tasks |-> <<>>]
    /\ REQUEST_COUNTER = 0
    /\ histograms = [f \in Families |-> EmptyBag]
    /\ registry = {}
    /\ metricOut = [scraped |-> FALSE, body |-> <<>>]
    /\ started = 0
    /\ completed = 0

\* ------------------------------------------------------------ handler entry
\* the handler runs up to its awaited RPC
call(t, r, request, rpc) ==
    /\ pc[t] = "idle"
    /\ started < MaxRequests
    /\ started' = started + 1
    /\ pc' = [pc EXCEPT ![t] = "called"]
    /\ route' = [route EXCEPT ![t] = r]
    /\ req' = [req EXCEPT ![t] = request]
    /\ rpcReq' = [rpcReq EXCEPT ![t] = rpc]
    /\ events' = [events EXCEPT ![t] = <<"call">>]
    /\ UNCHANGED <<rpcResp, res, labels, completed>>
    /\ UNCHANGED metrics

\* unwrap() of None before the RPC is issued: the task unwinds
panic_at_entry(t, r, request) ==
    /\ pc[t] = "idle"
    /\ started < MaxRequests
    /\ started' = started + 1
    /\ pc' = [pc EXCEPT ![t] = "panicked"]
    /\ route' = [route EXCEPT ![t] = r]
    /\ req' = [req EXCEPT ![t] = request]
    /\ events' = [events EXCEPT ![t] = <<"panic">>]
    /\ UNCHANGED <<rpcReq, rpcResp, res, security_name, labels, completed>>
    /\ UNCHANGED metrics

new_order(t, request) ==
    /\ call(t, "new", request, NewOrderRequest(request))
    /\ UNCHANGED security_name

modify_order(t, request) ==
    IF request.new_price = None \/ request.new_quantity = None
    THEN panic_at_entry(t, "modify", request)
    ELSE /\ call(t, "modify", request, ModifyOrderRequest(request))
         /\ UNCHANGED security_name

cancel_order(t, request) ==
    /\ call(t, "cancel", request, CancelOrderRequest(request))
    /\ UNCHANGED security_name

depth(t, request) ==
    IF request.level_count = None
    THEN panic_at_entry(t, "depth", request)
    ELSE /\ call(t, "depth", request, BookRequest(request))
         /\ security_name' = [security_name EXCEPT ![t] = request.security_name]

\* ------------------------------------------------------------ the awaited RPC
Responses(r) ==
    CASE r = "new" -> NewOrderResponse
      [] r = "modify" -> ModifyOrderResponse
      [] r = "cancel" -> CancelOrderResponse
      [] r = "depth" -> BookResponse
      [] OTHER -> {}

\* .await gives Ok(response): unwrap().into_inner(), then the From conversion
rpc_reply(t, response) ==
    /\ pc[t] = "called"
    /\ response \in Responses(route[t])
    /\ pc' = [pc EXCEPT ![t] = "resolved"]
    /\ rpcResp' = [rpcResp EXCEPT ![t] = response]
    /\ res' = [res EXCEPT ![t] =
                 CASE route[t] = "new" -> NewOrderRes(response)
                   [] route[t] = "modify" -> ModifyOrderRes(response)
                   [] route[t] = "cancel" -> CancelOrderRes(response)
                   [] route[t] = "depth" -> Nothing]
    /\ req' = [req EXCEPT ![t] = Nothing]
    /\ rpcReq' = [rpcReq EXCEPT ![t] = Nothing]
    /\ events' = [events EXCEPT ![t] = Append(@, "reply")]
    /\ UNCHANGED <<route, security_name, labels, started, completed>>
    /\ UNCHANGED metrics

\* .await gives Err(status): unwrap() panics and the task unwinds
rpc_error(t) ==
    /\ pc[t] = "called"
    /\ pc' = [pc EXCEPT ![t] = "panicked"]
    /\ req' = [req EXCEPT ![t] = Nothing]
    /\ rpcReq' = [rpcReq EXCEPT ![t] = Nothing]
    /\ events' = [events EXCEPT ![t] = Append(@, "error")]
    /\ UNCHANGED <<route, rpcResp, res, security_name, labels, started, completed>>
    /\ UNCHANGED metrics

\* ------------------------------------------------------------ after the RPC
\* new, modify, cancel: observe, inc, return.  depth: inc, observe, return.
observe_at(r) == IF r = "depth" THEN "counted" ELSE "resolved"
inc_at(r) == IF r = "depth" THEN "resolved" ELSE "observed"

respond_at_observed(r) == "observed"

respond_at(r) == IF r = "depth" THEN "observed" ELSE "counted"

\* the arguments of with_label_values
LabelValues(t) ==
    CASE route[t] = "new" -> <<"New Order", "success">>
      [] route[t] = "modify" -> <<ToString(res[t].status)>>
      [] route[t] = "cancel" -> <<ToString(res[t].status)>>
      [] route[t] = "depth" ->
           <<security_name[t],
             IF rpcResp[t].book_depth # None THEN ToString(200) ELSE ToString(400)>>

\* FAMILY.with_label_values(..).observe(elapsed): one more sample under the
\* labels; the elapsed time decides only the bucket and is left out
observe(t) ==
    /\ pc[t] = observe_at(route[t])
    /\ route[t] \in {"new", "modify", "cancel", "depth"}
    /\ pc' = [pc EXCEPT ![t] = "observed"]
    /\ labels' = [labels EXCEPT ![t] = LabelValues(t)]
    /\ histograms' = [histograms EXCEPT ![Family(route[t])] =
                        @ (+) SetToBag({LabelValues(t)})]
    /\ events' = [events EXCEPT ![t] = Append(@, "observe")]
    /\ UNCHANGED <<route, req, rpcReq, rpcResp, res, security_name,
                   REQUEST_COUNTER, registry, metricOut, started, completed>>

inc_only_for_book(t) ==
    /\ pc[t] = inc_at(route[t])
    /\ route[t] \in {"new", "modify", "cancel", "depth"}
    /\ pc' = [pc EXCEPT ![t] = "counted"]
    /\ REQUEST_COUNTER' =
         IF route[t] = "depth" /\ rpcResp[t].book_depth = None
         THEN REQUEST_COUNTER ELSE REQUEST_COUNTER + 1
    /\ events' = [events EXCEPT ![t] = Append(@, "inc")]
    /\ UNCHANGED <<route, req, rpcReq, rpcResp, res, security_name, labels,
                   histograms, registry, metricOut, started, completed>>

\* REQUEST_COUNTER.inc(), an atomic add
inc(t) ==
    /\ pc[t] = inc_at(route[t])
    /\ route[t] \in {"new", "modify", "cancel", "depth"}
    /\ pc' = [pc EXCEPT ![t] = "counted"]
    /\ REQUEST_COUNTER' = REQUEST_COUNTER + 1
    /\ events' = [events EXCEPT ![t] = Append(@, "inc")]
    /\ UNCHANGED <<route, req, rpcReq, rpcResp, res, security_name, labels,
                   histograms, registry, metricOut, started, completed>>

\* the handler returns Json(..)
respond(t) ==
    /\ pc[t] = respond_at(route[t])
    /\ route[t] \in {"new", "modify", "cancel", "depth"}
    /\ pc' = [pc EXCEPT ![t] = "done"]
    /\ res' = [res EXCEPT ![t] =
                 IF route[t] = "depth" THEN DepthRes(rpcResp[t].book_depth) ELSE @]
    /\ events' = [events EXCEPT ![t] = Append(@, "return")]
    /\ completed' = completed + 1
    /\ UNCHANGED <<route, req, rpcReq, rpcResp, security_name, labels, started>>
    /\ UNCHANGED metrics

\* ------------------------------------------------------------ GET /metric
\* Registry::gather: the families registered in this registry
gather(reg) ==
    [f \in reg |-> IF f = "request_counter" THEN REQUEST_COUNTER ELSE histograms[f]]

metric ==
    /\ metricOut' = [scraped |-> TRUE, body |-> gather(registry)]
    /\ UNCHANGED <<pc, route, req, rpcReq, rpcResp, res, security_name, labels,
                   events, REQUEST_COUNTER, histograms, registry, started, completed>>

\* ------------------------------------------------------------ serving
\* axum::serve gives the next request a fresh task, also after a panic
accept(t) ==
    /\ pc[t] \in {"done", "panicked"}
    /\ pc' = [pc EXCEPT ![t] = "idle"]
    /\ route' = [route EXCEPT ![t] = "none"]
    /\ req' = [req EXCEPT ![t] = Nothing]
    /\ rpcReq' = [rpcReq EXCEPT ![t] = Nothing]
    /\ rpcResp' = [rpcResp EXCEPT ![t] = Nothing]
    /\ res' = [res EXCEPT ![t] = Nothing]
    /\ security_name' = [security_name EXCEPT ![t] = ""]
    /\ labels' = [labels EXCEPT ![t] = <<>>]
    /\ events' = [events EXCEPT ![t] = <<>>]
    /\ UNCHANGED <<started, completed>>
    /\ UNCHANGED metrics

\* ------------------------------------------------------------ one client, one request at a time
Next ==
    \/ \E request \in NewOrder : new_order(1, request)
    \/ \E request \in ModifyOrder : modify_order(1, request)
    \/ \E request \in CancelOrder : cancel_order(1, request)
    \/ \E request \in DepthReq : depth(1, request)
    \/ \E response \in Responses(route[1]) : rpc_reply(1, response)
    \/ rpc_error(1)
    \/ observe(1)
    \/ inc(1)
    \/ respond(1)
    \/ accept(1)
    \/ metric

Spec == Init /\ [][Next]_vars

\* ------------------------------------------------------------ concurrent clients
\* one request of each route, and replies that differ in their status
ConcNewOrder == {r \in NewOrder : r.price = None /\ r.quantity = MaxVal
                                    /\ r.is_buy_side /\ r.security_name = "AAPL"}
ConcModifyOrder == {r \in ModifyOrder : r.order_id = "X" /\ r.new_price = Some(0)
                                          /\ r.new_quantity = Some(MaxVal) /\ r.is_buy_side}
ConcCancelOrder == {r \in CancelOrder : r.order_id = "X"}
ConcDepthReq == {r \in DepthReq : r.security_name = "MSFT" /\ r.level_count = Some(0)}

ConcResponses(r) ==
    CASE r = "new" -> {x \in NewOrderResponse : x.order_id = "X" /\ x.order_index = None
                                                  /\ (x.cause = None <=> x.status = 200)}
      [] r = "modify" -> {x \in ModifyOrderResponse : x.order_id = "X"
                                                  /\ (x.output = None <=> x.status = 200)}
      [] r = "cancel" -> {x \in CancelOrderResponse : x.order_id = "X"
                                                  /\ (x.cause = None <=> x.status = 200)}
      [] r = "depth" -> {x \in BookResponse : x.book_depth = None
                                                  \/ x.book_depth[1].ask_depth # <<>>}
      [] OTHER -> {}

NextConc ==
    \/ \E t \in Tasks : \E request \in ConcNewOrder : new_order(t, request)
    \/ \E t \in Tasks : \E request \in ConcModifyOrder : modify_order(t, request)
    \/ \E t \in Tasks : \E request \in ConcCancelOrder : cancel_order(t, request)
    \/ \E t \in Tasks : \E request \in ConcDepthReq : depth(t, request)
    \/ \E t \in Tasks : \E response \in ConcResponses(route[t]) : rpc_reply(t, response)
    \/ \E t \in Tasks : rpc_error(t)
    \/ \E t \in Tasks : observe(t)
    \/ \E t \in Tasks : inc(t)
    \/ \E t \in Tasks : respond(t)
    \/ metric

SpecConc == Init /\ [][NextConc]_vars

\* ------------------------------------------------------------ helpers of the properties
Count(e, seq) == Cardinality({i \in DOMAIN seq : seq[i] = e})
Position(e, seq) == CHOOSE i \in DOMAIN seq : seq[i] = e
Routes == {"new", "modify", "cancel", "depth"}
AfterReply == {"resolved", "observed", "counted", "done"}

\* 0 is forwarded as absent, n > 0 as present(n)
SentinelRule(inbound, forwarded) ==
    /\ inbound = Some(0) => forwarded = None
    /\ (inbound # None /\ inbound # Some(0)) => forwarded = inbound

\* ------------------------------------------------------------ C1
\* C1: every optional numeric input field (NewOrder.price, ModifyOrder.new_price,
\* ModifyOrder.new_quantity, DepthQuery.level_count) is forwarded to the backend as
\* absent when the inbound value is 0 and as present(n) when it is n > 0.
C1_EveryOptionalFieldNormalized ==
    \A t \in Tasks : pc[t] = "called" =>
        /\ route[t] = "new" => SentinelRule(req[t].price, rpcReq[t].price)
        /\ route[t] = "modify" =>
             /\ SentinelRule(req[t].new_price, rpcReq[t].new_price)
             /\ SentinelRule(req[t].new_quantity, rpcReq[t].new_quantity)
        /\ route[t] = "depth" => SentinelRule(req[t].level_count, rpcReq[t].level_count)

\* ------------------------------------------------------------ C2
\* C2: a backend call that fails at request time is caught by the handler, which
\* returns a structured response with an error status in its body; the serving task
\* is not terminated by the failure.
C2_BackendFailureCaught ==
    \A t \in Tasks : Count("error", events[t]) > 0 =>
        /\ pc[t] # "panicked"
        /\ pc[t] = "done" => res[t].status # 200

\* ------------------------------------------------------------ C3
\* C3: the request counter never decreases, every completed request of new, modify,
\* cancel and depth has added exactly 1 to it whatever the backend answered, and
\* under every interleaving the counter is the number of completed requests plus
\* the handlers that have incremented and are about to return; with no handler in
\* that window it equals the number of completed requests.
IncrementedNotReturned ==
    {t \in Tasks : pc[t] \in {"observed", "counted"} /\ Count("inc", events[t]) > 0}

C3_CounterInvariant ==
    /\ REQUEST_COUNTER = completed + Cardinality(IncrementedNotReturned)
    /\ IncrementedNotReturned = {} => REQUEST_COUNTER = completed
    /\ \A t \in Tasks : pc[t] = "done" => Count("inc", events[t]) = 1
    /\ \A t \in Tasks : Count("inc", events[t]) <= 1

C4_MetricRendersEveryFamily ==
    [][(metricOut' # metricOut /\ completed >= 1) =>
          /\ DOMAIN metricOut'.body = Families \cup {"request_counter"}
          /\ metricOut'.body["request_counter"] = REQUEST_COUNTER
          /\ \A f \in Families : metricOut'.body[f] = histograms[f]]_vars

\* ------------------------------------------------------------ C5
\* C5: a depth query answers {status: 200, success message} exactly when the backend
\* reply carries a book, and {status: 400, output: "orderbook is empty"} exactly
\* when the book is absent; status 200 is never returned for an absent book.
C5_DepthTwoOutcomes ==
    \A t \in Tasks : (route[t] = "depth" /\ pc[t] = "done") =>
        /\ rpcResp[t].book_depth # None <=>
             res[t] = [status |-> 200, output |-> "book recieved"]
        /\ rpcResp[t].book_depth = None <=>
             res[t] = [status |-> 400, output |-> "orderbook is empty"]
        /\ res[t].status = 200 => rpcResp[t].book_depth # None

C5_Witness ==
    \E t \in Tasks :
        /\ route[t] = "depth" /\ pc[t] = "done"
        /\ rpcResp[t].book_depth = None
        /\ res[t].status = 400

\* ------------------------------------------------------------ C6
\* C6: a new order whose price is absent is forwarded with order type market, for
\* every quantity and either side, and its quantity, side and security name are
\* forwarded unchanged.
C6_AbsentPriceIsMarket ==
    \A t \in Tasks : (route[t] = "new" /\ pc[t] = "called" /\ req[t].price = None) =>
        /\ rpcReq[t].order_type = "Market"
        /\ rpcReq[t].price = None
        /\ rpcReq[t].quantity = req[t].quantity
        /\ rpcReq[t].is_buy_side = req[t].is_buy_side
        /\ rpcReq[t].security_name = req[t].security_name

C6_Witness ==
    \E t \in Tasks :
        /\ route[t] = "new" /\ pc[t] = "called" /\ req[t].price = None
        /\ ~req[t].is_buy_side /\ req[t].quantity = MaxVal
        /\ rpcReq[t].order_type = "Market"

\* ------------------------------------------------------------ C7
\* C7: a completed business request has issued exactly one backend call, and its
\* single observation (in its route's family) and its counter increment come after
\* the reply to that call and before the response is returned.
C7_OneCallThenMetricsThenResponse ==
    /\ \A t \in Tasks : pc[t] = "done" =>
         /\ Count("call", events[t]) = 1
         /\ Count("reply", events[t]) = 1
         /\ Count("observe", events[t]) = 1
         /\ Count("inc", events[t]) = 1
         /\ Count("return", events[t]) = 1
         /\ Position("call", events[t]) < Position("reply", events[t])
         /\ Position("reply", events[t]) < Position("observe", events[t])
         /\ Position("reply", events[t]) < Position("inc", events[t])
         /\ Position("observe", events[t]) < Position("return", events[t])
         /\ Position("inc", events[t]) < Position("return", events[t])
         /\ Len(events[t]) = 5
    /\ \A t \in Tasks : Count("call", events[t]) <= 1
    /\ \A f \in Families :
         BagCardinality(histograms[f]) =
            Cardinality({t \in Tasks : route[t] \in Routes /\ Family(route[t]) = f
                                         /\ Count("observe", events[t]) = 1})

\* a rejected cancel and a depth query both completed
C7_Witness ==
    \E t, u \in Tasks :
        /\ pc[t] = "done" /\ route[t] = "cancel" /\ rpcResp[t].status = 400
        /\ pc[u] = "done" /\ route[u] = "depth"
        /\ BagCardinality(histograms["cancel_order_total_duration_ms"]) = 1

\* ------------------------------------------------------------ C8
\* C8: the response DTO of new, modify and cancel holds exactly its own fields, each
\* equal to the field of the RPC reply it comes from: new copies order_id, status,
\* order_index, cause; modify copies order_id, status, output; cancel copies
\* order_id and status and takes output from the reply's cause.
C8_MapperCopiesFields ==
    \A t \in Tasks : pc[t] \in AfterReply =>
        /\ route[t] = "new" =>
             /\ DOMAIN res[t] = {"order_id", "status", "order_index", "cause"}
             /\ res[t].order_id = rpcResp[t].order_id
             /\ res[t].status = rpcResp[t].status
             /\ res[t].order_index = rpcResp[t].order_index
             /\ res[t].cause = rpcResp[t].cause
        /\ route[t] = "modify" =>
             /\ DOMAIN res[t] = {"order_id", "status", "output"}
             /\ res[t].order_id = rpcResp[t].order_id
             /\ res[t].status = rpcResp[t].status
             /\ res[t].output = rpcResp[t].output
        /\ route[t] = "cancel" =>
             /\ DOMAIN res[t] = {"order_id", "status", "output"}
             /\ res[t].order_id = rpcResp[t].order_id
             /\ res[t].status = rpcResp[t].status
             /\ res[t].output = rpcResp[t].cause

C8_Witness ==
    \E t \in Tasks :
        /\ route[t] = "cancel" /\ pc[t] = "done"
        /\ rpcResp[t].cause = Some("rejected") /\ rpcResp[t].status = 400
        /\ res[t].output = Some("rejected")

\* ------------------------------------------------------------ C9
\* C9: the observation of a completed request carries labels taken from the reply:
\* for new, modify and cancel the status label reflects the reply's status (a
\* rejected request is not recorded under a success label), for depth the labels
\* are the requested security name and the returned status.
C9_LabelsReflectReply ==
    \A t \in Tasks : labels[t] # <<>> =>
        /\ route[t] = "new" =>
             (rpcResp[t].status # 200 => labels[t][Len(labels[t])] # "success")
        /\ route[t] \in {"modify", "cancel"} =>
             labels[t] = <<ToString(rpcResp[t].status)>>
        /\ route[t] = "depth" =>
             /\ labels[t][1] = security_name[t]
             /\ pc[t] = "done" => labels[t][2] = ToString(res[t].status)

\* ------------------------------------------------------------ C10
\* C10: a modify request that omits new_price or new_quantity, and a depth request
\* that omits level_count, is forwarded with that field absent and the handler
\* completes; an omitted field never makes the handler fail before the backend call.
C10_OmittedFieldForwardedAbsent ==
    \A t \in Tasks :
        /\ (route[t] = "modify" /\ pc[t] \in {"called", "panicked"}
              /\ DOMAIN req[t] = {"order_id", "new_price", "new_quantity",
                                         "is_buy_side"}) =>
             /\ req[t].new_price = None =>
                  (pc[t] = "called" /\ rpcReq[t].new_price = None)
             /\ req[t].new_quantity = None =>
                  (pc[t] = "called" /\ rpcReq[t].new_quantity = None)
        /\ (route[t] = "depth" /\ pc[t] \in {"called", "panicked"}
              /\ DOMAIN req[t] = {"security_name", "level_count"}) =>
             (req[t].level_count = None =>
                  (pc[t] = "called" /\ rpcReq[t].level_count = None))

====
